---- MODULE Spec2Model ----
(***************************************************************************)
(* Telemetry toolkit: the state engine (TelemetrySimulator, generator.py)  *)
(* and the command sequencer (VehicleControlSystem, control.py).           *)
(*                                                                         *)
(* Numbers.  The program's floats are modelled in fixed point: one unit is *)
(* 0.001 of the program's unit (metres, m/s, percent, degrees), so 1.0 is  *)
(* 1000.  update_interval is kept in tenths of a second.  latitude and     *)
(* longitude are kept in units of 1e-8 degree, so that                     *)
(* speed * 0.00001 * cos(h) is speed_units * CosMilli(h) / 1000.           *)
(* Divisions round toward zero.  Optional[float] is a sequence: <<>> is    *)
(* None and <<v>> is the value v.                                          *)
(***************************************************************************)
EXTENDS Integers, Sequences, FiniteSets, TLC

VARIABLES
    sim,            \* the TelemetrySimulator object (its attributes)
    engine_pc,      \* position of the start_simulation() coroutine
    ticks,          \* number of generate_data() calls made so far
    calls,          \* number of direct setter calls made so far
    ret,            \* outcome of the latest call by an external caller of
                    \* an operation that returns a value or can raise
    is_emergency_mode,  \* VehicleControlSystem.is_emergency_mode
    command_queue,  \* the items of _command_queue, oldest first; each is a
                    \* command with the number send_command accepted it as
    unfinished,     \* the queue's count of unfinished work (put / task_done)
    running,        \* VehicleControlSystem.running
    pending_tasks,  \* _pending_tasks: the maneuver tasks not yet done
    start_pc,       \* position of the start() coroutine
    command,        \* start()'s local variable command: the command it took
                    \* from the queue last
    tasks,          \* the maneuver tasks created so far
    sent,           \* number of commands send_command has accepted
    dequeued        \* the numbers of the commands start() took, in order

engine_vars == <<sim, engine_pc, ticks, calls>>
sequencer_vars == <<is_emergency_mode, command_queue, unfinished, running,
                    pending_tasks, start_pc, command, tasks, sent, dequeued>>
vars == <<sim, engine_pc, ticks, calls, ret, is_emergency_mode, command_queue,
          unfinished, running, pending_tasks, start_pc, command, tasks, sent,
          dequeued>>

-----------------------------------------------------------------------------
(* Bounds of the model *)

MaxTicks == 7           \* ticks of the engine on its own
MaxSetterCalls == 2     \* direct setter calls
MaxSeqTicks == 2        \* ticks while the sequencer is modelled
MaxSends == 2           \* commands sent by operators
MaxManeuvers == 1       \* maneuver tasks created while operators send
MaxTasks == 2           \* maneuver tasks created in all
MaxManeuverSends == 2   \* commands sent in all before an operator stops
                        \* sending, while maneuvers are modelled
MaxManeuverTicks == 1   \* ticks while maneuvers are modelled
MaxAppends == 3         \* snapshots appended to a given History

-----------------------------------------------------------------------------
(* Program constants, in model units *)

AltitudeReachThreshold == 1000      \* abs(altitude_diff) < 1.0
AltitudeRateDivisor == 10           \* altitude_diff / 10.0
MaxAltitudeRate == 10000            \* np.clip(.., -10.0, 10.0)
SpeedReachThreshold == 100          \* abs(speed_diff) < 0.1
SpeedRateDivisor == 5               \* speed_diff / 5.0
MaxAcceleration == 2000             \* np.clip(.., -2.0, 2.0)
BatteryDrainRate == -50             \* self.battery_drain_rate = -0.05
AccelerationDrainDivisor == 100     \* abs(self.acceleration) * 0.01
ClimbDrainDivisor == 200            \* abs(self.altitude_change_rate) * 0.005
BatteryMax == 100000                \* np.clip(.., 0.0, 100.0)
FullCircle == 360000                \* heading % 360.0
BufferCap == 1000                   \* len(self.data_buffer) > 1000
NoiseFactor == 100                   \* noise_factor: float = 0.1

None == <<>>
Some(v) == <<v>>

Abs(x) == IF x < 0 THEN -x ELSE x
Max(a, b) == IF a >= b THEN a ELSE b
Min(a, b) == IF a <= b THEN a ELSE b

\* float division and float products with a fractional factor: the quotient
\* rounded toward zero
Div0(a, b) == IF a >= 0 THEN a \div b ELSE -((-a) \div b)

\* np.clip that clips nothing
ClipNothing(x, lo, hi) == x

\* np.clip(x, lo, hi)
Clip(x, lo, hi) == Max(lo, Min(hi, x))

-----------------------------------------------------------------------------
(* TelemetrySimulator: pure parts *)

\* np.sin of a whole number of degrees, times 1000 (Bhaskara's rational
\* approximation on [0,180], odd symmetry on (180,360))
SinMilli(d) ==
    LET x == IF d <= 180 THEN d ELSE d - 180
        p == x * (180 - x)
        v == (4000 * p) \div (40500 - p)
    IN IF d <= 180 THEN v ELSE -v

\* np.cos(np.radians(h)) * 1000, h in model units (0.001 degree)
CosMilli(h) == SinMilli((Div0(h, 1000) + 90) % 360)

\* np.sin(np.radians(h)) * 1000
SinMilliOfHeading(h) == SinMilli(Div0(h, 1000) % 360)

\* a target_altitude cleared at a distance of exactly 1.0 as well
AltitudeTargetAfterInclusive(s) ==
    IF s.target_altitude # None
       /\ Abs(s.target_altitude[1] - s.altitude) <= AltitudeReachThreshold
    THEN None ELSE s.target_altitude

\* _update_movement: the new target_altitude and altitude_change_rate
AltitudeTargetAfter(s) ==
    IF s.target_altitude # None
       /\ Abs(s.target_altitude[1] - s.altitude) < AltitudeReachThreshold
    THEN None ELSE s.target_altitude

\* an altitude_change_rate that a tick never recomputes
AltitudeRateKept(s) == s.altitude_change_rate

AltitudeRateAfter(s) ==
    IF s.target_altitude # None
       /\ ~(Abs(s.target_altitude[1] - s.altitude) < AltitudeReachThreshold)
    THEN Clip(Div0(s.target_altitude[1] - s.altitude, AltitudeRateDivisor),
              -MaxAltitudeRate, MaxAltitudeRate)
    ELSE s.altitude_change_rate

\* _update_movement: the new target_speed and acceleration
SpeedTargetAfter(s) ==
    IF s.target_speed # None
       /\ Abs(s.target_speed[1] - s.speed) < SpeedReachThreshold
    THEN None ELSE s.target_speed

AccelerationAfter(s) ==
    IF s.target_speed # None
       /\ ~(Abs(s.target_speed[1] - s.speed) < SpeedReachThreshold)
    THEN Clip(Div0(s.target_speed[1] - s.speed, SpeedRateDivisor),
              -MaxAcceleration, MaxAcceleration)
    ELSE s.acceleration

\* _update_movement
UpdateMovement(s) ==
    LET rate == AltitudeRateAfter(s)
        acc == AccelerationAfter(s)
        alt == s.altitude + Div0(rate * s.update_interval, 10)
        spd == s.speed + Div0(acc * s.update_interval, 10)
    IN [s EXCEPT
          !.target_altitude = AltitudeTargetAfter(s),
          !.altitude_change_rate = rate,
          !.target_speed = SpeedTargetAfter(s),
          !.acceleration = acc,
          !.altitude = alt,
          !.speed = spd,
          !.latitude = IF spd > 0
                       THEN @ + Div0(spd * CosMilli(s.heading), 1000) ELSE @,
          !.longitude = IF spd > 0
                        THEN @ + Div0(spd * SinMilliOfHeading(s.heading), 1000)
                        ELSE @]

\* _update_battery without the final np.clip
UpdateBatteryUnclipped(s) ==
    LET drain == BatteryDrainRate
                 - Div0(Abs(s.acceleration), AccelerationDrainDivisor)
                 - Div0(Abs(s.altitude_change_rate), ClimbDrainDivisor)
    IN [s EXCEPT !.battery_level = @ + Div0(drain * s.update_interval, 10)]

\* _update_battery
UpdateBattery(s) ==
    LET drain == BatteryDrainRate
                 - Div0(Abs(s.acceleration), AccelerationDrainDivisor)
                 - Div0(Abs(s.altitude_change_rate), ClimbDrainDivisor)
    IN [s EXCEPT !.battery_level =
          Clip(@ + Div0(drain * s.update_interval, 10), 0, BatteryMax)]

\* the fields of the TelemetryData dataclass (none has a default)
TelemetryDataFields ==
    {"timestamp", "altitude", "speed", "battery_level", "sensor_readings"}

\* the keyword arguments generate_data passes to TelemetryData(...)
GenerateDataKwargs ==
    {"timestamp", "altitude", "speed", "battery_level", "latitude",
     "longitude", "sensor_readings"}

\* the dataclass __init__ raises TypeError on an unexpected or a missing
\* keyword argument
TelemetryDataRaises(kwargs) == kwargs # TelemetryDataFields

\* TelemetryData.validate on the fields the model keeps (the sensor readings
\* are floats whatever the state, so their test always passes)
Validate(d) ==
    /\ d.altitude >= 0
    /\ d.speed >= 0
    /\ 0 <= d.battery_level
    /\ d.battery_level <= BatteryMax

\* generate_data: the state after the call, and whether it raised
\* (the state is updated before the snapshot is built; m is the state
\* after _update_movement and t the one after _update_battery, each bound
\* as a value so that it is computed once)
GenerateData(s) ==
    CHOOSE r \in
      { [state |-> t,
         raised |-> TelemetryDataRaises(GenerateDataKwargs),
         data |-> [altitude |-> t.altitude, speed |-> t.speed,
                   battery_level |-> t.battery_level]] :
        t \in { UpdateBattery(m) : m \in {UpdateMovement(s)} } } : TRUE

\* _add_noise(value) for a draw z of the standard normal distribution (in
\* thousandths): value + z * abs(value) * noise_factor
AddNoise(value, z) ==
    value + Div0(Div0(Abs(value) * NoiseFactor, 1000) * z, 1000)

\* an engine that keeps the values it reported
StateAfterReportFedBack(t, reported) ==
    [t EXCEPT !.altitude = reported.altitude, !.speed = reported.speed]

\* lines 166-174: the noisy values go into the snapshot only, current_state
\* is not assigned
StateAfterReport(t, reported) == t

\* the fields generate_data reports from the state t, with the draws
\* z.altitude and z.speed of its two _add_noise calls
ReportedFields(t, z) ==
    [altitude |-> AddNoise(t.altitude, z.altitude),
     speed |-> AddNoise(t.speed, z.speed),
     battery_level |-> t.battery_level]

\* generate_data with the draws z
GenerateDataWithNoise(s, z) ==
    CHOOSE r \in
      { [state |-> StateAfterReport(t, ReportedFields(t, z)),
         raised |-> TelemetryDataRaises(GenerateDataKwargs),
         data |-> ReportedFields(t, z)] :
        t \in { UpdateBattery(m) : m \in {UpdateMovement(s)} } } : TRUE

\* set_target_altitude without max(0.0, ..)
SetTargetAltitudeUnclamped(s, v) == [s EXCEPT !.target_altitude = Some(v)]

\* set_target_altitude, set_target_speed
SetTargetAltitude(s, v) == [s EXCEPT !.target_altitude = Some(Max(0, v))]
SetTargetSpeed(s, v) == [s EXCEPT !.target_speed = Some(Max(0, v))]

\* set_heading with a remainder that takes the sign of the dividend
SetHeadingTruncating(s, v) ==
    [s EXCEPT !.heading = IF v >= 0 THEN v % FullCircle
                          ELSE -((-v) % FullCircle)]

\* set_heading: Python's % takes the sign of the divisor
SetHeading(s, v) == [s EXCEPT !.heading = v % FullCircle]

\* append, then drop the newest over the cap
BufferAfterAppendDropsNewest(buf, data) ==
    LET b == Append(buf, data)
    IN IF Len(b) > BufferCap THEN SubSeq(b, 1, BufferCap) ELSE b

\* start_simulation, lines 204-208: append, then drop the oldest over the cap
BufferAfterAppend(buf, data) ==
    LET b == Append(buf, data)
    IN IF Len(b) > BufferCap THEN Tail(b) ELSE b

-----------------------------------------------------------------------------
(* Inputs *)

UpdateIntervals == {1, 10}                  \* 0.1 s (tests), 1.0 s (default)
InitialAltitudes == {0, 1000, 100000}       \* 0, 1.0, 100.0 (default)
InitialSpeeds == {0, 100}                   \* 0.0 (default), 0.1
InitialBatteries == {100, 100000}           \* 0.1, 100.0 (default)
TargetInputs == {-5000, 0, 50000}           \* -5.0, 0.0, 50.0
AltitudeTargetInputs == TargetInputs \cup {500000}  \* and 500.0 (tests)
HeadingInputs == {-30000, 90000, 360000, 725000}

\* TelemetrySimulator.__init__
NewSimulator(dt, alt, spd, bat) ==
    [update_interval |-> dt,
     altitude |-> alt, speed |-> spd, battery_level |-> bat,
     latitude |-> 0, longitude |-> 0,
     target_altitude |-> None, altitude_change_rate |-> 0,
     target_speed |-> None, acceleration |-> 0,
     heading |-> 0,
     running |-> FALSE,
     data_buffer |-> <<>>]

-----------------------------------------------------------------------------
(* ControlCommand and VehicleControlSystem: pure parts *)

\* ControlCommand(target_altitude, target_speed, target_heading, emergency_stop)
ControlCommand(a, s, h, e) ==
    [target_altitude |-> a, target_speed |-> s, target_heading |-> h,
     emergency_stop |-> e]

\* _process_command without the test of is_emergency_mode
ProcessCommandIgnoringMode(s, em, c) ==
    LET s1 == IF c.target_altitude # None
              THEN SetTargetAltitude(s, c.target_altitude[1]) ELSE s
        s2 == IF c.target_speed # None
              THEN SetTargetSpeed(s1, c.target_speed[1]) ELSE s1
    IN IF c.target_heading # None
       THEN SetHeading(s2, c.target_heading[1]) ELSE s2

\* a field value that ControlCommand.__str__ formats and float() refuses,
\* such as the complex number 1j (the dataclass checks no types; a str is
\* refused by the log line of send_command already); it is given a number
\* of its own, apart from every value the commands carry
NotAReal == -999999999

\* float(v) raises TypeError on an optional field v
FloatRaises(v) == v # None /\ v[1] = NotAReal

\* _process_command raises: outside emergency mode, a command without
\* emergency_stop one of whose fields float() refuses (lines 103, 107, 111)
ProcessCommandRaises(em, c) ==
    /\ ~c.emergency_stop
    /\ ~em
    /\ \/ FloatRaises(c.target_altitude)
       \/ FloatRaises(c.target_speed)
       \/ FloatRaises(c.target_heading)

\* _process_command after the emergency_stop test: the engine after a command
\* without emergency_stop, em being is_emergency_mode; the fields are applied
\* in the order altitude, speed, heading, up to the first that raises
ProcessCommand(s, em, c) ==
    IF em THEN s
    ELSE LET ra == FloatRaises(c.target_altitude)
             rs == ra \/ FloatRaises(c.target_speed)
             rh == rs \/ FloatRaises(c.target_heading)
             s1 == IF c.target_altitude # None /\ ~ra
                   THEN SetTargetAltitude(s, c.target_altitude[1]) ELSE s
             s2 == IF c.target_speed # None /\ ~rs
                   THEN SetTargetSpeed(s1, c.target_speed[1]) ELSE s1
         IN IF c.target_heading # None /\ ~rh
            THEN SetHeading(s2, c.target_heading[1]) ELSE s2

\* is_emergency_mode assigned from each command's emergency_stop
EmergencyModeFromCommand(em, c) == c.emergency_stop

\* is_emergency_mode once a dequeued command has been looked at: only
\* _activate_emergency_mode assigns it, and assigns True
EmergencyModeAfter(em, c) == IF c.emergency_stop THEN TRUE ELSE em

\* an activation that forces the altitude before its sleep
ActivateEmergencyBeginAltitudeFirst(s) == SetTargetAltitude(s, 0)

\* _activate_emergency_mode up to its sleep
ActivateEmergencyBegin(s) == SetTargetSpeed(s, 0)

\* _activate_emergency_mode after its sleep, without set_target_altitude
ActivateEmergencyEndKeepsAltitude(s) == s

\* _activate_emergency_mode after its sleep
ActivateEmergencyEnd(s) == SetTargetAltitude(s, 0)

\* a _process_command that goes on to the target fields of a command with
\* emergency_stop once the activation is over
ProcessEmergencyStopThenFields(s, c) ==
    ProcessCommandIgnoringMode(ActivateEmergencyEnd(s), FALSE, c)

\* _process_command for a command c with emergency_stop, from the end of the
\* activation's sleep: the rest of the activation, then return; no field of
\* c is looked at
ProcessEmergencyStop(s, c) == ActivateEmergencyEnd(s)

\* send_command that accepts a command and does not put it on the queue
SendCommandDropping(run, q, item) == [raised |-> ~run, queue |-> q]

\* send_command without the test of running
SendCommandUnchecked(run, q, item) ==
    [raised |-> FALSE, queue |-> Append(q, item)]

\* send_command: whether it raises RuntimeError, and the queue after it
SendCommand(run, q, item) ==
    [raised |-> ~run, queue |-> IF run THEN Append(q, item) ELSE q]

\* a maneuver started whatever the mode
ManeuverAllowedAlways(em) == TRUE

\* "if not self.is_emergency_mode" of execute_takeoff_sequence and
\* execute_landing_sequence
ManeuverAllowed(em) == ~em

\* a queue that hands out its newest item
QueueGetNewest(q) == [item |-> q[Len(q)], rest |-> SubSeq(q, 1, Len(q) - 1)]

\* asyncio.Queue.get on a queue that holds something
QueueGet(q) == [item |-> Head(q), rest |-> Tail(q)]

\* the two commands of a maneuver sent in the opposite order
ManeuverCommandReversed(kind, step, alt) ==
    IF kind = "takeoff"
    THEN IF step = 2
         THEN ControlCommand(Some(50000), Some(5000), None, FALSE)
         ELSE ControlCommand(Some(alt), Some(20000), None, FALSE)
    ELSE IF step = 2
         THEN ControlCommand(None, Some(10000), None, FALSE)
         ELSE ControlCommand(Some(0), Some(5000), None, FALSE)

\* a landing that sends its final approach twice, without the slow-down
ManeuverCommandNoSlowDown(kind, step, alt) ==
    IF kind = "takeoff"
    THEN IF step = 1
         THEN ControlCommand(Some(50000), Some(5000), None, FALSE)
         ELSE ControlCommand(Some(alt), Some(20000), None, FALSE)
    ELSE ControlCommand(Some(0), Some(5000), None, FALSE)

\* the two commands of _takeoff_sequence and of _landing_sequence
ManeuverCommand(kind, step, alt) ==
    IF kind = "takeoff"
    THEN IF step = 1
         THEN ControlCommand(Some(50000), Some(5000), None, FALSE)
         ELSE ControlCommand(Some(alt), Some(20000), None, FALSE)
    ELSE IF step = 1
         THEN ControlCommand(None, Some(10000), None, FALSE)
         ELSE ControlCommand(Some(0), Some(5000), None, FALSE)

-----------------------------------------------------------------------------
(* Inputs of the sequencer *)

\* every combination of target fields, without and with emergency_stop
OperatorCommands ==
    { ControlCommand(a, s, h, e) :
        a \in {None, Some(200000)}, s \in {None, Some(20000)},
        h \in {None, Some(90000)}, e \in {FALSE} }
    \cup { ControlCommand(None, None, None, TRUE),
           ControlCommand(Some(200000), Some(20000), Some(90000), TRUE) }

TakeoffAltitudes == {300000}        \* execute_takeoff_sequence's default

TaskIds == 1..MaxTasks

NoTask == [kind |-> "none", pc |-> "none", alt |-> 0, cancel |-> FALSE]

\* VehicleControlSystem.__init__
SequencerInit ==
    /\ is_emergency_mode = FALSE
    /\ command_queue = <<>>
    /\ unfinished = 0
    /\ running = FALSE
    /\ pending_tasks = {}
    /\ start_pc = "idle"
    /\ command = None
    /\ tasks = [t \in TaskIds |-> NoTask]
    /\ sent = 0
    /\ dequeued = <<>>

-----------------------------------------------------------------------------
(* The engine on its own: direct setter calls, direct ticks, the loop *)

InitEngine ==
    /\ \E dt \in UpdateIntervals, alt \in InitialAltitudes,
          spd \in InitialSpeeds, bat \in InitialBatteries :
            sim = NewSimulator(dt, alt, spd, bat)
    /\ engine_pc = "idle"
    /\ ticks = 0
    /\ calls = 0
    /\ ret = "none"
    /\ SequencerInit

\* set_target_altitude(v) called by an external caller
SetTargetAltitudeCall(v) ==
    /\ calls < MaxSetterCalls
    /\ sim' = SetTargetAltitude(sim, v)
    /\ calls' = calls + 1
    /\ UNCHANGED <<engine_pc, ticks, ret>>
    /\ UNCHANGED sequencer_vars

CallSetTargetAltitude == \E v \in AltitudeTargetInputs : SetTargetAltitudeCall(v)

\* set_target_speed(v) called by an external caller
SetTargetSpeedCall(v) ==
    /\ calls < MaxSetterCalls
    /\ sim' = SetTargetSpeed(sim, v)
    /\ calls' = calls + 1
    /\ UNCHANGED <<engine_pc, ticks, ret>>
    /\ UNCHANGED sequencer_vars

CallSetTargetSpeed == \E v \in TargetInputs : SetTargetSpeedCall(v)

\* set_heading(v) called by an external caller
SetHeadingCall(v) ==
    /\ calls < MaxSetterCalls
    /\ sim' = SetHeading(sim, v)
    /\ calls' = calls + 1
    /\ UNCHANGED <<engine_pc, ticks, ret>>
    /\ UNCHANGED sequencer_vars

CallSetHeading == \E v \in HeadingInputs : SetHeadingCall(v)

\* a caller awaits generate_data() itself (as the tests do)
CallGenerateData ==
    /\ ticks < MaxTicks
    /\ LET r == GenerateData(sim)
       IN /\ sim' = r.state
          /\ ret' = IF r.raised THEN "TypeError" ELSE "data"
    /\ ticks' = ticks + 1
    /\ UNCHANGED <<engine_pc, calls>>
    /\ UNCHANGED sequencer_vars

\* start_simulation up to the loop test
StartSimulation ==
    /\ engine_pc = "idle"
    /\ sim' = [sim EXCEPT !.running = TRUE]
    /\ engine_pc' = "loop"
    /\ UNCHANGED <<ticks, calls, ret>>
    /\ UNCHANGED sequencer_vars

\* a loop without its try/except: the exception of a tick ends
\* start_simulation and reaches its caller
LoopIterationPropagates ==
    /\ engine_pc = "loop"
    /\ sim.running
    /\ ticks < MaxTicks
    /\ LET r == GenerateData(sim)
       IN IF r.raised
          THEN /\ sim' = r.state
               /\ engine_pc' = "idle"
               /\ ret' = "TypeError"
          ELSE /\ sim' = [r.state EXCEPT !.data_buffer =
                            BufferAfterAppend(@, r.data)]
               /\ engine_pc' = "sleep"
               /\ ret' = ret
    /\ ticks' = ticks + 1
    /\ UNCHANGED calls
    /\ UNCHANGED sequencer_vars

\* one pass of the loop body: the tick, the append and trim when the tick
\* returned a snapshot, then the sleep; "except Exception: continue" goes
\* straight back to the loop test
LoopIteration ==
    /\ engine_pc = "loop"
    /\ sim.running
    /\ ticks < MaxTicks
    /\ LET r == GenerateData(sim)
       IN IF r.raised
          THEN /\ sim' = r.state
               /\ engine_pc' = "loop"
          ELSE /\ sim' = [r.state EXCEPT !.data_buffer =
                            BufferAfterAppend(@, r.data)]
               /\ engine_pc' = "sleep"
    /\ ticks' = ticks + 1
    /\ UNCHANGED <<calls, ret>>
    /\ UNCHANGED sequencer_vars

\* the loop test fails: start_simulation returns
LoopExit ==
    /\ engine_pc = "loop"
    /\ ~sim.running
    /\ engine_pc' = "idle"
    /\ UNCHANGED <<sim, ticks, calls, ret>>
    /\ UNCHANGED sequencer_vars

\* stop_simulation
StopSimulation ==
    /\ sim.running
    /\ sim' = [sim EXCEPT !.running = FALSE]
    /\ UNCHANGED <<engine_pc, ticks, calls, ret>>
    /\ UNCHANGED sequencer_vars

\* the engine driven by its callers: setters and ticks in any order
NextEngine ==
    \/ CallSetTargetAltitude
    \/ CallSetTargetSpeed
    \/ CallSetHeading
    \/ CallGenerateData

SpecEngine == InitEngine /\ [][NextEngine]_vars

\* the engine driven by start_simulation, with setters called meanwhile
NextLoop ==
    \/ CallSetTargetAltitude
    \/ CallSetTargetSpeed
    \/ CallSetHeading
    \/ StartSimulation
    \/ LoopIteration
    \/ LoopExit
    \/ StopSimulation

SpecLoop == InitEngine /\ [][NextLoop]_vars

\* the driving loop with one kind of setter called meanwhile
NextDrivingLoop ==
    \/ CallSetTargetAltitude
    \/ StartSimulation
    \/ LoopIteration
    \/ LoopExit
    \/ StopSimulation

SpecDrivingLoop == InitEngine /\ [][NextDrivingLoop]_vars

\* draws of the standard normal distribution, in thousandths, for the
\* reported altitude and the reported speed
NoiseDraws ==
    { [altitude |-> 0, speed |-> 0],
      [altitude |-> -2000, speed |-> 1500],
      [altitude |-> 3000, speed |-> -500] }

\* generate_data() called with the draws z
NoisyTick(z) ==
    /\ ticks < MaxTicks
    /\ LET r == GenerateDataWithNoise(sim, z)
       IN /\ sim' = r.state
          /\ ret' = IF r.raised THEN "TypeError" ELSE "data"
    /\ ticks' = ticks + 1
    /\ UNCHANGED <<engine_pc, calls>>
    /\ UNCHANGED sequencer_vars

\* the engine with noise drawn at every tick
NextNoise ==
    \/ CallSetTargetAltitude
    \/ CallSetTargetSpeed
    \/ \E z \in NoiseDraws : NoisyTick(z)

SpecNoise == InitEngine /\ [][NextNoise]_vars

-----------------------------------------------------------------------------
(* Convergence on its own: targets are set, then ticks are made with no    *)
(* setter called any more, for as long as a target is set                  *)

\* update_interval and initial speed: 0.5 s (examples) and 1.0 s (default),
\* and 30 s with the vehicle at rest, so that its position stays put; the
\* battery starts at 0.1 and is soon empty
ConvergeInputs ==
    {<<dt, spd>> : dt \in {5, 10}, spd \in InitialSpeeds} \cup {<<300, 0>>}

InitConverge ==
    /\ \E in \in ConvergeInputs, alt \in InitialAltitudes :
          sim = NewSimulator(in[1], alt, in[2], 100)
    /\ engine_pc = "idle"
    /\ ticks = 0
    /\ calls = 0
    /\ ret = "none"
    /\ SequencerInit

\* set_target_altitude before the first tick
SetAltitudeBeforeTicks == ret = "none" /\ CallSetTargetAltitude

\* set_target_speed before the first tick (at 30 s the vehicle stays at rest)
SetSpeedBeforeTicks ==
    /\ ret = "none"
    /\ sim.update_interval <= 10
    /\ CallSetTargetSpeed

\* generate_data() called once more while a target is set
TickWhileTargetSet ==
    /\ sim.target_altitude # None \/ sim.target_speed # None
    /\ LET r == GenerateData(sim)
       IN /\ sim' = r.state
          /\ ret' = IF r.raised THEN "TypeError" ELSE "data"
    /\ UNCHANGED <<engine_pc, ticks, calls>>
    /\ UNCHANGED sequencer_vars

NextConverge ==
    \/ SetAltitudeBeforeTicks
    \/ SetSpeedBeforeTicks
    \/ TickWhileTargetSet

\* the caller keeps ticking every update_interval
SpecConverge ==
    InitConverge /\ [][NextConverge]_vars /\ WF_vars(TickWhileTargetSet)

-----------------------------------------------------------------------------
(* History on its own: lines 204-208 of start_simulation applied to a      *)
(* snapshot, from a History of a given length                              *)

\* what a snapshot carries of the engine's state
Snapshot(alt, spd, bat) ==
    [altitude |-> alt, speed |-> spd, battery_level |-> bat]

\* the snapshots handed to the append
SnapshotInputs == { Snapshot(alt, 0, BatteryMax) : alt \in {0, 50000, 100000} }

\* lengths of History before the appends: empty, and up to the cap
InitialBufferLengths == {0, BufferCap - 2, BufferCap - 1, BufferCap}

\* a History of n snapshots, told apart by their altitudes 0.001 .. n/1000
BufferOfLength(n) == [i \in 1..n |-> Snapshot(i, 0, BatteryMax)]

InitBuffer ==
    /\ \E n \in InitialBufferLengths :
          sim = [NewSimulator(1, 100000, 0, BatteryMax)
                   EXCEPT !.running = TRUE, !.data_buffer = BufferOfLength(n)]
    /\ engine_pc = "loop"
    /\ ticks = 0
    /\ calls = 0
    /\ ret = "none"
    /\ SequencerInit

\* lines 204-208 with the snapshot d in data
AppendToBuffer(d) ==
    /\ ticks < MaxAppends
    /\ sim' = [sim EXCEPT !.data_buffer = BufferAfterAppend(@, d)]
    /\ ticks' = ticks + 1
    /\ UNCHANGED <<engine_pc, calls, ret>>
    /\ UNCHANGED sequencer_vars

NextBuffer == \E d \in SnapshotInputs : AppendToBuffer(d)

SpecBuffer == InitBuffer /\ [][NextBuffer]_vars

-----------------------------------------------------------------------------
(* TelemetryData.validate on snapshots a caller builds: the dataclass      *)
(* checks no types, so a field or a reading can hold any Python value      *)

\* a Python value: its type, and its number when it has one
Value(kind, v) == [kind |-> kind, v |-> v]
Float(v) == Value("float", v)
NaN == Value("nan", 0)
Str == Value("str", 0)
NoneValue == Value("None", 0)
Bool == Value("bool", 1)

\* line 36: isinstance(v, (int, float)); bool is a subclass of int, nan is a
\* float
IsInstanceIntFloat(x) == x.kind \in {"int", "float", "bool", "nan"}

\* lines 32-34: comparing a str or None with a number raises TypeError
ComparisonRaises(x) == x.kind \in {"str", "None"}

\* x >= n and x <= n for a value that compares: every comparison with nan
\* is False
Ge(x, n) == x.kind # "nan" /\ x.v >= n
Le(x, n) == x.kind # "nan" /\ x.v <= n

\* validate without the test of the sensor readings
TelemetryDataValidateIgnoringReadings(d) ==
    IF \E f \in {"altitude", "speed", "battery_level"} : ComparisonRaises(d[f])
    THEN FALSE
    ELSE /\ Ge(d.altitude, 0)
         /\ Ge(d.speed, 0)
         /\ Ge(d.battery_level, 0)
         /\ Le(d.battery_level, BatteryMax)

\* validate, lines 29-42: the four tests are all evaluated (a list is
\* built), a TypeError of one of them is caught and gives False
TelemetryDataValidate(d) ==
    IF \E f \in {"altitude", "speed", "battery_level"} : ComparisonRaises(d[f])
    THEN FALSE
    ELSE /\ Ge(d.altitude, 0)
         /\ Ge(d.speed, 0)
         /\ Ge(d.battery_level, 0)
         /\ Le(d.battery_level, BatteryMax)
         /\ \A k \in DOMAIN d.sensor_readings :
               IsInstanceIntFloat(d.sensor_readings[k])

\* TelemetryData(timestamp, altitude, speed, battery_level, sensor_readings)
TelemetryData(alt, spd, bat, readings) ==
    [altitude |-> alt, speed |-> spd, battery_level |-> bat,
     sensor_readings |-> readings]

\* field values: the ones of the tests (100.0, -10.0, 50.0, 75.0, 150.0),
\* the edges of the ranges, and values that are no numbers
AltitudeValues == {Float(-10000), Float(-1), Float(0), Float(100000), NaN, Str}
SpeedValues == {Float(-1), Float(0), Float(50000), NoneValue}
BatteryValues ==
    {Float(-1), Float(0), Float(75000), Float(BatteryMax),
     Float(BatteryMax + 1), Float(150000), NaN}

\* sensor readings: none, {'temperature': 20.0}, {'temperature': 'warm'},
\* and two readings of which one is no number
SensorReadingsValues ==
    {<<>>,
     [k \in {"temperature"} |-> Float(20000)],
     [k \in {"temperature"} |-> Str],
     [k \in {"temperature"} |-> Bool],
     [k \in {"temperature"} |-> Value("int", 20)],
     [k \in {"temperature", "pressure"} |->
        IF k = "pressure" THEN NoneValue ELSE Float(20000)],
     [k \in {"temperature", "pressure"} |->
        IF k = "pressure" THEN NaN ELSE Float(20000)]}

\* a snapshot built by a caller, kept where the engine keeps snapshots
InitValidate ==
    /\ \E alt \in AltitudeValues, spd \in SpeedValues, bat \in BatteryValues,
          readings \in SensorReadingsValues :
          sim = [NewSimulator(1, 100000, 0, BatteryMax)
                   EXCEPT !.data_buffer =
                            <<TelemetryData(alt, spd, bat, readings)>>]
    /\ engine_pc = "idle"
    /\ ticks = 0
    /\ calls = 0
    /\ ret = "none"
    /\ SequencerInit

\* data.validate(): returns a bool, assigns nothing
CallValidate ==
    /\ ret' = IF TelemetryDataValidate(sim.data_buffer[1])
              THEN "True" ELSE "False"
    /\ UNCHANGED <<sim, engine_pc, ticks, calls>>
    /\ UNCHANGED sequencer_vars

NextValidate == CallValidate

SpecValidate == InitValidate /\ [][NextValidate]_vars

-----------------------------------------------------------------------------
(* The sequencer with its producers, and the engine ticking meanwhile *)

Init ==
    /\ \E alt \in {0, 100000} : sim = NewSimulator(1, alt, 0, 100000)
    /\ engine_pc = "idle"
    /\ ticks = 0
    /\ calls = 0
    /\ ret = "none"
    /\ SequencerInit

\* a tick of the engine between two steps of the sequencer
EngineTick ==
    /\ ticks < MaxSeqTicks
    /\ sim' = GenerateData(sim).state
    /\ ticks' = ticks + 1
    /\ UNCHANGED <<engine_pc, calls, ret>>
    /\ UNCHANGED sequencer_vars

\* start() up to its first wait on the queue
StartCall ==
    /\ start_pc = "idle"
    /\ running' = TRUE
    /\ start_pc' = "get"
    /\ UNCHANGED <<command, engine_vars, ret, is_emergency_mode, command_queue,
                   unfinished, pending_tasks, tasks, sent, dequeued>>

\* start() leaves its loop: the finally block sets running and
\* _cleanup_tasks cancels every pending task, then waits for them
ExitLoop ==
    /\ running' = FALSE
    /\ tasks' = [t \in TaskIds |->
                   IF t \in pending_tasks
                   THEN [tasks[t] EXCEPT !.cancel = TRUE] ELSE tasks[t]]
    /\ start_pc' = IF pending_tasks = {} THEN "idle" ELSE "cleanup"

\* a loop that goes on whatever running is
LoopTestIgnoringRunning ==
    /\ start_pc' = "get"
    /\ UNCHANGED <<running, tasks>>

\* "while self.running" after a command or a timeout
LoopTest ==
    IF running
    THEN /\ start_pc' = "get"
         /\ UNCHANGED <<running, tasks>>
    ELSE ExitLoop

\* a consume loop without "except Exception: continue": a command that
\* raises ends the loop
ConsumeCommandFatal ==
    /\ start_pc = "get"
    /\ command_queue # <<>>
    /\ LET got == QueueGet(command_queue)
           raised == ProcessCommandRaises(is_emergency_mode, got.item.cmd)
       IN /\ ~got.item.cmd.emergency_stop
          /\ command_queue' = got.rest
          /\ dequeued' = Append(dequeued, got.item.id)
          /\ command' = Some(got.item.cmd)
          /\ sim' = ProcessCommand(sim, is_emergency_mode, got.item.cmd)
          /\ is_emergency_mode' =
                EmergencyModeAfter(is_emergency_mode, got.item.cmd)
          /\ unfinished' = IF raised THEN unfinished ELSE unfinished - 1
          /\ IF raised THEN ExitLoop ELSE LoopTest
    /\ UNCHANGED <<engine_pc, ticks, calls, ret, pending_tasks, sent>>

\* the queue hands start() a command without emergency_stop: _process_command
\* applies or rejects it, then task_done; when _process_command raises,
\* task_done is skipped and "except Exception: continue" goes to the loop test
ConsumeCommand ==
    /\ start_pc = "get"
    /\ command_queue # <<>>
    /\ LET got == QueueGet(command_queue)
           raised == ProcessCommandRaises(is_emergency_mode, got.item.cmd)
       IN /\ ~got.item.cmd.emergency_stop
          /\ command_queue' = got.rest
          /\ dequeued' = Append(dequeued, got.item.id)
          /\ command' = Some(got.item.cmd)
          /\ sim' = ProcessCommand(sim, is_emergency_mode, got.item.cmd)
          /\ is_emergency_mode' =
                EmergencyModeAfter(is_emergency_mode, got.item.cmd)
          /\ unfinished' = IF raised THEN unfinished ELSE unfinished - 1
    /\ LoopTest
    /\ UNCHANGED <<engine_pc, ticks, calls, ret, pending_tasks, sent>>

\* the queue hands start() a command with emergency_stop:
\* _activate_emergency_mode runs up to its sleep
ConsumeEmergency ==
    /\ start_pc = "get"
    /\ command_queue # <<>>
    /\ LET got == QueueGet(command_queue)
       IN /\ got.item.cmd.emergency_stop
          /\ command_queue' = got.rest
          /\ dequeued' = Append(dequeued, got.item.id)
          /\ command' = Some(got.item.cmd)
          /\ is_emergency_mode' =
                EmergencyModeAfter(is_emergency_mode, got.item.cmd)
          /\ sim' = ActivateEmergencyBegin(sim)
    /\ start_pc' = "pause"
    /\ UNCHANGED <<engine_pc, ticks, calls, ret, unfinished, running,
                   pending_tasks, tasks, sent>>

\* the sleep of _activate_emergency_mode ends: the rest of it, then task_done
EmergencyResume ==
    /\ start_pc = "pause"
    /\ sim' = ProcessEmergencyStop(sim, command[1])
    /\ unfinished' = unfinished - 1
    /\ LoopTest
    /\ UNCHANGED <<command, engine_pc, ticks, calls, ret, is_emergency_mode,
                   command_queue, pending_tasks, sent, dequeued>>

\* wait_for times out on an empty queue and the loop test fails (while
\* running holds the loop only waits again)
WaitTimeout ==
    /\ start_pc = "get"
    /\ command_queue = <<>>
    /\ ~running
    /\ ExitLoop
    /\ UNCHANGED <<command, engine_vars, ret, is_emergency_mode, command_queue,
                   unfinished, pending_tasks, sent, dequeued>>

\* the task running start() is cancelled while it waits on the queue or
\* sleeps in _activate_emergency_mode: CancelledError, break, finally
CancelStart ==
    /\ start_pc \in {"get", "pause"}
    /\ ExitLoop
    /\ UNCHANGED <<command, engine_vars, ret, is_emergency_mode, command_queue,
                   unfinished, pending_tasks, sent, dequeued>>

\* a cancelled maneuver task ends; its done callback discards it
ManeuverCancelled(t) ==
    /\ tasks[t].cancel
    /\ tasks' = [tasks EXCEPT ![t] = [@ EXCEPT !.pc = "cancelled",
                                               !.cancel = FALSE]]
    /\ pending_tasks' = pending_tasks \ {t}
    /\ UNCHANGED <<command, engine_vars, ret, is_emergency_mode, command_queue,
                   unfinished, running, start_pc, sent, dequeued>>

\* gather returns in _cleanup_tasks: clear the set, start() returns
CleanupDone ==
    /\ start_pc = "cleanup"
    /\ \A t \in TaskIds : ~tasks[t].cancel
    /\ pending_tasks' = {}
    /\ start_pc' = "idle"
    /\ UNCHANGED <<command, engine_vars, ret, is_emergency_mode, command_queue,
                   unfinished, running, tasks, sent, dequeued>>

\* an external caller stops the sequencer: running = False
StopCall ==
    /\ running
    /\ running' = FALSE
    /\ UNCHANGED <<command, engine_vars, ret, is_emergency_mode, command_queue,
                   unfinished, pending_tasks, start_pc, tasks, sent, dequeued>>

\* an operator awaits send_command(c)
SendCommandCall(c) ==
    /\ LET r == SendCommand(running, command_queue,
                            [cmd |-> c, id |-> sent + 1])
       IN /\ command_queue' = r.queue
          /\ ret' = IF r.raised THEN "RuntimeError" ELSE "ok"
          /\ sent' = IF r.raised THEN sent ELSE sent + 1
          /\ unfinished' = IF r.raised THEN unfinished ELSE unfinished + 1
    /\ UNCHANGED <<command, engine_vars, is_emergency_mode, running, pending_tasks,
                   start_pc, tasks, dequeued>>

OperatorSend ==
    /\ running => sent < MaxSends
    /\ \E c \in OperatorCommands : SendCommandCall(c)

\* an operator calls clear_emergency_mode(): VehicleControlSystem has no such
\* attribute, the call raises AttributeError
ClearEmergencyModeCall ==
    /\ ret' = "AttributeError"
    /\ UNCHANGED <<engine_vars, sequencer_vars>>

\* execute_takeoff_sequence / execute_landing_sequence: outside emergency
\* mode, create the task and add it to _pending_tasks; in emergency mode do
\* nothing.  Either way the call returns None.
ExecuteManeuver(kind, alt) ==
    /\ ret' = "None"
    /\ IF ManeuverAllowed(is_emergency_mode)
       THEN \E t \in TaskIds :
              /\ tasks[t].kind = "none"
              /\ \A u \in TaskIds : u < t => tasks[u].kind # "none"
              /\ tasks' = [tasks EXCEPT ![t] = [kind |-> kind, pc |-> "send1",
                                                alt |-> alt, cancel |-> FALSE]]
              /\ pending_tasks' = pending_tasks \cup {t}
       ELSE UNCHANGED <<tasks, pending_tasks>>
    /\ UNCHANGED <<command, engine_vars, is_emergency_mode, command_queue,
                   unfinished, running, start_pc, sent, dequeued>>

ExecuteTakeoff == \E alt \in TakeoffAltitudes : ExecuteManeuver("takeoff", alt)

ExecuteLanding == ExecuteManeuver("landing", 0)

\* a maneuver task awaits send_command: its first command when it starts,
\* its second after its sleep; RuntimeError ends the task
ManeuverSend(t) ==
    /\ tasks[t].pc \in {"send1", "send2"}
    /\ ~tasks[t].cancel
    /\ LET step == IF tasks[t].pc = "send1" THEN 1 ELSE 2
           r == SendCommand(running, command_queue,
                    [cmd |-> ManeuverCommand(tasks[t].kind, step, tasks[t].alt),
                     id |-> sent + 1])
       IN /\ command_queue' = r.queue
          /\ sent' = IF r.raised THEN sent ELSE sent + 1
          /\ unfinished' = IF r.raised THEN unfinished ELSE unfinished + 1
          /\ tasks' = [tasks EXCEPT ![t].pc =
                         IF r.raised THEN "failed"
                         ELSE IF step = 1 THEN "send2" ELSE "join"]
          /\ pending_tasks' = IF r.raised THEN pending_tasks \ {t}
                              ELSE pending_tasks
    /\ UNCHANGED <<command, engine_vars, ret, is_emergency_mode, running, start_pc,
                   dequeued>>

\* the queue's join() returns to a maneuver: the task is done
ManeuverJoined(t) ==
    /\ tasks[t].pc = "join"
    /\ ~tasks[t].cancel
    /\ unfinished = 0
    /\ tasks' = [tasks EXCEPT ![t].pc = "done"]
    /\ pending_tasks' = pending_tasks \ {t}
    /\ UNCHANGED <<command, engine_vars, ret, is_emergency_mode, command_queue,
                   unfinished, running, start_pc, sent, dequeued>>

\* the sequencer fed by operators
Next ==
    \/ EngineTick
    \/ StartCall
    \/ ConsumeCommand
    \/ ConsumeEmergency
    \/ EmergencyResume
    \/ WaitTimeout
    \/ CancelStart
    \/ StopCall
    \/ OperatorSend
    \/ ClearEmergencyModeCall

Spec == Init /\ [][Next]_vars

\* the event loop lets start() go on: a wait on the queue ends, with a
\* command or with its 0.5 s timeout, and the sleep of the activation ends
Fairness ==
    /\ WF_vars(ConsumeCommand)
    /\ WF_vars(ConsumeEmergency)
    /\ WF_vars(EmergencyResume)
    /\ WF_vars(WaitTimeout)

\* the sequencer fed by operators, started, stopped and cancelled, with the
\* engine at rest
NextSequencer ==
    \/ StartCall
    \/ ConsumeCommand
    \/ ConsumeEmergency
    \/ EmergencyResume
    \/ WaitTimeout
    \/ CancelStart
    \/ StopCall
    \/ OperatorSend

SpecFair == Init /\ [][NextSequencer]_vars /\ Fairness

\* the commands an operator sends while maneuvers run
ManeuverOperatorCommands == { ControlCommand(None, None, None, TRUE) }

OperatorSendDuringManeuver ==
    /\ running => sent < MaxManeuverSends
    /\ \E c \in ManeuverOperatorCommands : SendCommandCall(c)

\* a tick of the engine while maneuvers run
EngineTickDuringManeuver ==
    /\ ticks < MaxManeuverTicks
    /\ EngineTick

InitManeuvers ==
    /\ sim = NewSimulator(1, 100000, 0, 100000)
    /\ engine_pc = "idle"
    /\ ticks = 0
    /\ calls = 0
    /\ ret = "none"
    /\ SequencerInit

\* the maneuver tasks created so far
CreatedTasks == {t \in TaskIds : tasks[t].kind # "none"}

\* a maneuver asked for while operators send: a call that creates a task is
\* made only while fewer than MaxManeuvers tasks were created
ManeuverWithinBound ==
    ManeuverAllowed(is_emergency_mode) => Cardinality(CreatedTasks) < MaxManeuvers

TakeoffDuringOperation == ManeuverWithinBound /\ ExecuteTakeoff

LandingDuringOperation == ManeuverWithinBound /\ ExecuteLanding

\* the sequencer fed by maneuvers and operators
NextManeuvers ==
    \/ EngineTickDuringManeuver
    \/ StartCall
    \/ ConsumeCommand
    \/ ConsumeEmergency
    \/ EmergencyResume
    \/ WaitTimeout
    \/ CancelStart
    \/ CleanupDone
    \/ StopCall
    \/ OperatorSendDuringManeuver
    \/ TakeoffDuringOperation
    \/ LandingDuringOperation
    \/ \E t \in TaskIds : ManeuverSend(t)
    \/ \E t \in TaskIds : ManeuverJoined(t)
    \/ \E t \in TaskIds : ManeuverCancelled(t)

SpecManeuvers == InitManeuvers /\ [][NextManeuvers]_vars

\* the same, with the event loop letting start() go on
SpecManeuversFair == InitManeuvers /\ [][NextManeuvers]_vars /\ Fairness

-----------------------------------------------------------------------------
(* Starting and stopping the sequencer while maneuvers are asked for *)

\* start(), its stop and its cancellation, and takeoff maneuvers asked for at
\* any moment, the shutdown included
NextShutdown ==
    \/ StartCall
    \/ ConsumeCommand
    \/ WaitTimeout
    \/ CancelStart
    \/ CleanupDone
    \/ StopCall
    \/ ExecuteTakeoff
    \/ \E t \in TaskIds : ManeuverSend(t)
    \/ \E t \in TaskIds : ManeuverJoined(t)
    \/ \E t \in TaskIds : ManeuverCancelled(t)

SpecShutdown == InitManeuvers /\ [][NextShutdown]_vars

-----------------------------------------------------------------------------
(* The sequencer taking a command that raises *)

\* an operator's commands: one that applies, and one whose target_speed
\* float() refuses (its target_altitude 50.0 is applied before the raise)
FaultyOperatorCommands ==
    { ControlCommand(Some(200000), Some(20000), None, FALSE),
      ControlCommand(Some(50000), Some(NotAReal), None, FALSE) }

FaultyOperatorSend ==
    /\ running => sent < MaxSends
    /\ \E c \in FaultyOperatorCommands : SendCommandCall(c)

\* a started sequencer fed by an operator and by a takeoff
NextFaulty ==
    \/ StartCall
    \/ ConsumeCommand
    \/ FaultyOperatorSend
    \/ TakeoffDuringOperation
    \/ \E t \in TaskIds : ManeuverSend(t)
    \/ \E t \in TaskIds : ManeuverJoined(t)

\* the event loop lets start() take the next command
SpecFaulty == InitManeuvers /\ [][NextFaulty]_vars /\ WF_vars(ConsumeCommand)

-----------------------------------------------------------------------------
(* Claims *)

\* C1: applying a command with emergency_stop sets the latch and forces
\* target_speed to 0.0 at once; while start() sleeps in the activation no
\* step gives target_speed another value (a tick can only clear it on
\* reaching it); the end of the activation forces target_altitude to 0.0 with
\* the latch still set.  No target of an earlier command survives.
C1_EmergencyForcesTargets ==
    /\ [][ConsumeEmergency =>
            (is_emergency_mode' /\ sim'.target_speed = Some(0))]_vars
    /\ [][(start_pc = "pause" /\ start_pc' = "pause") =>
            sim'.target_speed \in {sim.target_speed, None}]_vars
    /\ [][EmergencyResume =>
            (/\ is_emergency_mode'
             /\ sim'.target_altitude = Some(0)
             /\ sim'.target_speed \in {Some(0), None})]_vars

\* C1 witness: a command with target_altitude 200 and target_speed 20 was
\* applied and a tick moved the engine towards them (it climbs above 100 and
\* gathers speed); then an emergency stop was applied to the end: both targets
\* are 0.0 and the latch is set
C1_Witness ==
    /\ is_emergency_mode
    /\ start_pc = "get"
    /\ command = Some(ControlCommand(None, None, None, TRUE))
    /\ dequeued = <<1, 2>>
    /\ sim.altitude > 100000
    /\ sim.speed > 0
    /\ sim.target_altitude = Some(0)
    /\ sim.target_speed = Some(0)

\* C2: in emergency mode, applying a dequeued command without emergency_stop
\* leaves target_altitude, target_speed and heading as they were, whatever
\* target fields the command carries.
C2_EmergencyBlocksCommands ==
    [][(ConsumeCommand /\ is_emergency_mode) =>
         (/\ sim'.target_altitude = sim.target_altitude
          /\ sim'.target_speed = sim.target_speed
          /\ sim'.heading = sim.heading)]_vars

\* C2 witness: in emergency mode start() took a command carrying all three
\* target fields; the targets are still the emergency's and heading is 0
C2_Witness ==
    /\ is_emergency_mode
    /\ command = Some(ControlCommand(Some(200000), Some(20000),
                                      Some(90000), FALSE))
    /\ dequeued = <<1, 2>>
    /\ sim.target_altitude = Some(0)
    /\ sim.target_speed = Some(0)
    /\ sim.heading = 0

\* C3: once is_emergency_mode is true no step makes it false: no command,
\* tick, wait timeout, cancellation, stop or restart of the sequencer.
C3_EmergencySticky == [][is_emergency_mode => is_emergency_mode']_vars

\* C3 witness: the latch is still set after a later command without
\* emergency_stop was taken, a tick, and a stop of the sequencer
C3_Witness ==
    /\ is_emergency_mode
    /\ command # None
    /\ ~command[1].emergency_stop
    /\ ticks > 0
    /\ start_pc = "idle"
    /\ Len(dequeued) = 2

\* C4: clear_emergency_mode() called in emergency mode returns false and
\* keeps the latch when altitude > 1.0 or speed > 0.1, and returns true and
\* clears the latch when altitude <= 1.0 and speed <= 0.1.
C4_ClearEmergencyMode ==
    [][(ClearEmergencyModeCall /\ is_emergency_mode) =>
         IF sim.altitude <= 1000 /\ sim.speed <= 100
         THEN ret' = "True" /\ ~is_emergency_mode'
         ELSE ret' = "False" /\ is_emergency_mode']_vars

\* C5: start() takes the commands in the order send_command accepted them,
\* each once: the k-th command taken is the k-th command accepted, whoever
\* sent it (an operator or a maneuver).
C5_AppliedInEnqueueOrder ==
    /\ \A i \in 1..Len(dequeued) : dequeued[i] = i
    /\ \A i \in 1..Len(command_queue) :
          command_queue[i].id = Len(dequeued) + i
    /\ Len(dequeued) + Len(command_queue) = sent

\* C5 witness: a maneuver's first command, an operator's emergency stop and
\* the maneuver's second command were all taken
C5_Witness ==
    /\ Len(dequeued) = 3
    /\ is_emergency_mode
    /\ tasks[1].pc = "done"

\* C6: send_command while running is false raises RuntimeError and leaves
\* the queue, the latch and the engine as they were; while running is true it
\* appends exactly the command at the tail of the queue.
C6_SendCommand ==
    [][\A c \in OperatorCommands :
         SendCommandCall(c) =>
           IF running
           THEN /\ ret' = "ok"
                /\ Len(command_queue') = Len(command_queue) + 1
                /\ SubSeq(command_queue', 1, Len(command_queue)) = command_queue
                /\ command_queue'[Len(command_queue')].cmd = c
           ELSE /\ ret' = "RuntimeError"
                /\ command_queue' = command_queue
                /\ unfinished' = unfinished
                /\ is_emergency_mode' = is_emergency_mode
                /\ sim' = sim]_vars

\* C6 witness: a send was refused while the queue held a command
C6_Witness ==
    /\ ret = "RuntimeError"
    /\ ~running
    /\ Len(command_queue) = 1
    /\ sent = 1

\* C7: altitude and speed are >= 0 after every tick, from an initial state
\* with altitude >= 0 and speed >= 0, whatever setters were called.
C7_AltitudeSpeedNonNegative == sim.altitude >= 0 /\ sim.speed >= 0

\* C8: battery_level is within [0,100] after every tick and no step
\* increases it.
C8_BatteryBoundedNonIncreasing ==
    /\ [](0 <= sim.battery_level /\ sim.battery_level <= BatteryMax)
    /\ [][sim'.battery_level <= sim.battery_level]_vars

\* C8 witness: the battery has drained to 0 and further ticks were made
C8_Witness ==
    /\ sim.battery_level = 0
    /\ ticks = MaxTicks
    /\ sim.acceleration # 0

\* a reading h of heading is v mod 360: in [0,360) and congruent to v
IsModFullCircle(h, v) ==
    /\ 0 <= h
    /\ h < FullCircle
    /\ \E k \in -3..3 : v = h + k * FullCircle

C11_FifoEviction ==
    [][\A d \in SnapshotInputs :
         AppendToBuffer(d) =>
           LET old == sim.data_buffer
               new == sim'.data_buffer
           IN IF Len(old) = BufferCap
              THEN /\ Len(new) = BufferCap
                   /\ \A i \in 1..(BufferCap - 1) : new[i] = old[i + 1]
                   /\ new[BufferCap] = d
              ELSE /\ Len(new) = Len(old) + 1
                   /\ \A i \in 1..Len(old) : new[i] = old[i]
                   /\ new[Len(new)] = d]_vars

\* C11 witness: three appends to a full History: its three oldest entries
\* are gone, the fourth is now first, and the History is still full
C11_Witness ==
    /\ ticks = MaxAppends
    /\ Len(sim.data_buffer) = BufferCap
    /\ sim.data_buffer[1] = Snapshot(MaxAppends + 1, 0, BatteryMax)
    /\ sim.data_buffer[BufferCap] \in SnapshotInputs

\* C12: the snapshot a tick builds from the engine's state passes the
\* validity predicate (altitude >= 0, speed >= 0, battery in [0,100]), in
\* every reachable state of the engine.
C12_SnapshotsValid ==
    [][CallGenerateData => Validate(GenerateData(sim).data)]_vars

\* C13: every tick of the running loop appends exactly one snapshot, built
\* from that tick's state, to History: below the cap History grows by one.
C13_TickAppendsSnapshot ==
    [][LoopIteration =>
         (Len(sim.data_buffer) < BufferCap =>
            /\ Len(sim'.data_buffer) = Len(sim.data_buffer) + 1
            /\ sim'.data_buffer[Len(sim'.data_buffer)] =
                  GenerateData(sim).data)]_vars

\* C14: on every tick, whatever the targets, altitude changes by at most
\* 10 x update_interval and speed by at most 2 x update_interval.
C14_TickDeltaBounded ==
    [][CallGenerateData =>
         /\ 10 * Abs(sim'.altitude - sim.altitude)
               <= MaxAltitudeRate * sim.update_interval
         /\ 10 * Abs(sim'.speed - sim.speed)
               <= MaxAcceleration * sim.update_interval]_vars

\* C14 witness: ticks towards targets 400 m and 50 m/s away, both rates at
\* their limits
C14_Witness ==
    /\ ticks > 0
    /\ sim.target_altitude = Some(500000)
    /\ sim.target_speed = Some(50000)
    /\ sim.altitude_change_rate = MaxAltitudeRate
    /\ sim.acceleration = MaxAcceleration
    /\ sim.altitude > 100000

\* x lies between a and b, ends included
Between(x, a, b) == Min(a, b) <= x /\ x <= Max(a, b)

\* C15: a tick made while a target T is set moves the axis value toward T
\* and never past it: the new value lies between the old value and T (for
\* update_interval <= 1), on the altitude axis and on the speed axis.
C15_MovesTowardTarget ==
    [][(CallGenerateData /\ sim.update_interval <= 10) =>
         /\ sim.target_altitude # None =>
               Between(sim'.altitude, sim.altitude, sim.target_altitude[1])
         /\ sim.target_speed # None =>
               Between(sim'.speed, sim.speed, sim.target_speed[1])]_vars

\* C16: a tick clears target_altitude exactly when it is set and within
\* 1.0 of altitude at the start of the tick, and target_speed exactly when it
\* is set and within 0.1 of speed; otherwise the target is as it was.
C16_TargetClearedAtThreshold ==
    [][CallGenerateData =>
         /\ sim'.target_altitude =
               IF /\ sim.target_altitude # None
                  /\ Abs(sim.target_altitude[1] - sim.altitude) < 1000
               THEN None ELSE sim.target_altitude
         /\ sim'.target_speed =
               IF /\ sim.target_speed # None
                  /\ Abs(sim.target_speed[1] - sim.speed) < 100
               THEN None ELSE sim.target_speed]_vars

\* C16 witness: from altitude 1.0 with target 0.0 the first tick (distance
\* exactly 1.0) kept the target and set the rate, the second cleared it
C16_Witness ==
    /\ ticks = 2
    /\ calls = 1
    /\ sim.target_altitude = None
    /\ sim.altitude_change_rate = -100
    /\ sim.altitude < 1000

\* C17: on a tick with target_altitude T set and |T - altitude| >= 1.0 the
\* new altitude is the old one + clamp((T - altitude)/10, -10, 10) x
\* update_interval; altitude 100 with target 500 becomes 100 + 10 x
\* update_interval.
C17_AltitudeStep ==
    /\ [][(/\ CallGenerateData
            /\ sim.target_altitude # None
            /\ Abs(sim.target_altitude[1] - sim.altitude) >= 1000) =>
             LET diff == sim.target_altitude[1] - sim.altitude
                 rate == Max(-10000, Min(10000, Div0(diff, 10)))
             IN sim'.altitude =
                  sim.altitude + Div0(rate * sim.update_interval, 10)]_vars
    /\ [][(/\ CallGenerateData
            /\ sim.altitude = 100000
            /\ sim.target_altitude = Some(500000)) =>
             sim'.altitude = 100000 + 1000 * sim.update_interval]_vars

\* C17 witness: one tick from altitude 100 with target 500
C17_Witness ==
    /\ ticks = 1
    /\ calls = 1
    /\ sim.target_altitude = Some(500000)
    /\ sim.altitude = 100000 + 1000 * sim.update_interval

\* C18: set_target_altitude(v) stores max(0, v) as target_altitude and
\* set_target_speed(v) stores max(0, v) as target_speed; neither changes any
\* other attribute of the engine (altitude, speed, heading, battery, position,
\* rates, the other target, History); a stored target is never negative.
C18_SettersClampAndFrame ==
    /\ [][\A v \in AltitudeTargetInputs :
            SetTargetAltitudeCall(v) =>
              /\ sim'.target_altitude = Some(IF v < 0 THEN 0 ELSE v)
              /\ [sim' EXCEPT !.target_altitude = sim.target_altitude] = sim]_vars
    /\ [][\A v \in TargetInputs :
            SetTargetSpeedCall(v) =>
              /\ sim'.target_speed = Some(IF v < 0 THEN 0 ELSE v)
              /\ [sim' EXCEPT !.target_speed = sim.target_speed] = sim]_vars
    /\ []((sim.target_altitude # None => sim.target_altitude[1] >= 0)
           /\ (sim.target_speed # None => sim.target_speed[1] >= 0))

\* C18 witness: both setters were called with the engine at rest at altitude
\* 100: the targets are stored and nothing else has moved
C18_Witness ==
    /\ calls = 2
    /\ ticks = 0
    /\ sim.target_altitude = Some(0)
    /\ sim.target_speed = Some(50000)
    /\ sim.altitude = 100000
    /\ sim.altitude_change_rate = 0

\* C19: with the engine ticking meanwhile, target_speed and target_altitude
\* are both 0.0 when an emergency activation completes, and stay 0.0 at every
\* later step while is_emergency_mode is true.
C19_EmergencyTargetsStayZero ==
    /\ [][EmergencyResume =>
            (sim'.target_speed = Some(0) /\ sim'.target_altitude = Some(0))]_vars
    /\ [][(/\ is_emergency_mode
            /\ start_pc # "pause"
            /\ sim.target_speed = Some(0)
            /\ sim.target_altitude = Some(0)) =>
             (sim'.target_speed = Some(0) /\ sim'.target_altitude = Some(0))]_vars

\* C20: execute_takeoff_sequence and execute_landing_sequence called in
\* emergency mode create no maneuver task and enqueue nothing; commands of
\* maneuvers come only from tasks created outside emergency mode.
C20_NoManeuverInEmergency ==
    [][((ExecuteTakeoff \/ ExecuteLanding) /\ is_emergency_mode) =>
         /\ tasks' = tasks
         /\ pending_tasks' = pending_tasks
         /\ command_queue' = command_queue
         /\ sent' = sent
         /\ unfinished' = unfinished]_vars

\* C20 witness: a maneuver was asked for in emergency mode, after the
\* emergency stop was applied to the end, and no task was ever created
C20_Witness ==
    /\ is_emergency_mode
    /\ start_pc = "get"
    /\ ret = "None"
    /\ \A t \in TaskIds : tasks[t].kind = "none"
    /\ command_queue = <<>>

\* the command at the tail of the queue after a step
LastQueued == command_queue'[Len(command_queue')].cmd

\* C21: a takeoff maneuver on a running sequencer enqueues two commands and
\* no more: first (target_altitude 50, target_speed 5), then, after its
\* pause, (target_altitude A, target_speed 20).  Applying the first outside
\* emergency mode leaves both targets > 0.  When the maneuver was the only
\* producer and no emergency occurred, the targets set last are A and 20.
C21_TakeoffSequence ==
    /\ [][\A t \in TaskIds :
            (ManeuverSend(t) /\ tasks[t].kind = "takeoff" /\ running) =>
              IF tasks[t].pc = "send1"
              THEN /\ LastQueued =
                        ControlCommand(Some(50000), Some(5000), None, FALSE)
                   /\ tasks'[t].pc = "send2"
              ELSE /\ LastQueued =
                        ControlCommand(Some(tasks[t].alt), Some(20000),
                                       None, FALSE)
                   /\ tasks'[t].pc = "join"]_vars
    /\ [][\A t \in TaskIds :
            tasks[t].pc \in {"join", "done", "failed", "cancelled"} =>
              ~ManeuverSend(t)]_vars
    /\ [][(/\ ConsumeCommand
            /\ ~is_emergency_mode
            /\ Head(command_queue).cmd =
                  ControlCommand(Some(50000), Some(5000), None, FALSE)) =>
             (/\ sim'.target_altitude # None /\ sim'.target_altitude[1] > 0
              /\ sim'.target_speed # None /\ sim'.target_speed[1] > 0)]_vars
    /\ [](\A t \in TaskIds :
            (/\ tasks[t].kind = "takeoff"
             /\ tasks[t].pc \in {"join", "done"}
             /\ sent = 2
             /\ Len(dequeued) = 2
             /\ ~is_emergency_mode) =>
              (/\ sim.target_altitude = Some(tasks[t].alt)
               /\ sim.target_speed = Some(20000)))

\* C21 witness: a takeoff to 300 ran to its end as the only producer
C21_Witness ==
    /\ \E t \in TaskIds : tasks[t].kind = "takeoff" /\ tasks[t].pc = "done"
    /\ dequeued = <<1, 2>>
    /\ sent = 2
    /\ ~is_emergency_mode
    /\ sim.target_altitude = Some(300000)
    /\ sim.target_speed = Some(20000)

\* C22: a landing maneuver on a running sequencer enqueues two commands:
\* first the slow-down (target_speed 10, no altitude), then, after its pause,
\* the final approach (target_altitude 0, target_speed 5).  When the maneuver
\* was the only producer and no emergency occurred, the targets set last are
\* altitude 0.0 and speed 5.0.
C22_LandingSequence ==
    /\ [][\A t \in TaskIds :
            (ManeuverSend(t) /\ tasks[t].kind = "landing" /\ running) =>
              IF tasks[t].pc = "send1"
              THEN /\ LastQueued =
                        ControlCommand(None, Some(10000), None, FALSE)
                   /\ tasks'[t].pc = "send2"
              ELSE /\ LastQueued =
                        ControlCommand(Some(0), Some(5000), None, FALSE)
                   /\ tasks'[t].pc = "join"]_vars
    /\ [](\A t \in TaskIds :
            (/\ tasks[t].kind = "landing"
             /\ tasks[t].pc \in {"join", "done"}
             /\ sent = 2
             /\ Len(dequeued) = 2
             /\ ~is_emergency_mode) =>
              (/\ sim.target_altitude = Some(0)
               /\ sim.target_speed = Some(5000)))

\* C22 witness: a landing from altitude 100 ran to its end as the only
\* producer, with a tick after its slow-down was applied
C22_Witness ==
    /\ \E t \in TaskIds : tasks[t].kind = "landing" /\ tasks[t].pc = "done"
    /\ dequeued = <<1, 2>>
    /\ sent = 2
    /\ ~is_emergency_mode
    /\ sim.speed > 0
    /\ sim.target_altitude = Some(0)
    /\ sim.target_speed = Some(5000)

\* a maneuver task that has started and not ended
InFlight(t) == tasks[t].pc \in {"send1", "send2", "join"}

\* C23: when start() leaves its consume loop every maneuver task in flight
\* is cancelled, and start() returns only once they have ended, with the
\* pending-task set empty and running false; from the exit of the loop until
\* a new start() no command is enqueued by a maneuver and none is applied.
C23_ShutdownCancelsManeuvers ==
    /\ [][(start_pc \in {"get", "pause"} /\ start_pc' \notin {"get", "pause"}) =>
            (/\ ~running'
             /\ \A t \in TaskIds : (InFlight(t) => tasks'[t].cancel))]_vars
    /\ [][(start_pc # "idle" /\ start_pc' = "idle") =>
            (/\ ~running'
             /\ pending_tasks' = {}
             /\ \A t \in TaskIds : ~tasks'[t].cancel)]_vars
    /\ [][(start_pc \in {"idle", "cleanup"}) =>
            (/\ dequeued' = dequeued
             /\ \A t \in TaskIds :
                   (ManeuverSend(t) => (command_queue' = command_queue)))]_vars
    /\ [][\A t \in TaskIds :
            ((tasks[t].cancel \/ tasks[t].pc = "cancelled") =>
               ~ManeuverSend(t))]_vars

\* C24: once running is false while start() is in its loop, the loop is
\* left by the next thing start() does: the end of the command being applied,
\* the next command handed to it, or the timeout of its wait; so start()
\* eventually returns, also with an empty queue.  A cancellation during the
\* wait leaves the loop and start() returns.
C24_StopEndsLoop ==
    /\ [][(/\ ~running
            /\ start_pc \in {"get", "pause"}
            /\ (ConsumeCommand \/ EmergencyResume \/ WaitTimeout)) =>
             start_pc' = "idle"]_vars
    /\ [][(~running /\ start_pc = "get" /\ start_pc' # "get") =>
             Len(dequeued') <= Len(dequeued) + 1]_vars
    /\ [][CancelStart => (~running' /\ start_pc' = "idle")]_vars
    /\ ((~running /\ start_pc # "idle") ~> (start_pc = "idle"))

\* C24 witness: with two commands queued the sequencer was stopped; start()
\* applied one command, left its loop and returned, the other still queued
C24_Witness ==
    /\ start_pc = "idle"
    /\ ~running
    /\ Len(dequeued) = 1
    /\ Len(command_queue) = 1
    /\ unfinished = 1

\* what the specification calls numeric: an int or a float (True and False
\* are ints in Python, nan is a float)
IsNumeric(x) == x.kind \in {"int", "float", "bool", "nan"}

\* x >= n, x <= n as the specification reads them: true of a number that is
\* at least (at most) n, not true of anything else
AtLeast(x, n) == x.kind \in {"int", "float", "bool"} /\ x.v >= n
AtMost(x, n) == x.kind \in {"int", "float", "bool"} /\ x.v <= n

\* the specification's condition on a snapshot
ValidAsSpecified(d) ==
    /\ AtLeast(d.altitude, 0)
    /\ AtLeast(d.speed, 0)
    /\ AtLeast(d.battery_level, 0)
    /\ AtMost(d.battery_level, 100000)
    /\ \A k \in DOMAIN d.sensor_readings : IsNumeric(d.sensor_readings[k])

\* C25: validate() returns True exactly when altitude >= 0, speed >= 0,
\* 0 <= battery_level <= 100 and every sensor reading is numeric, and False
\* otherwise; the answer is a function of the snapshot's fields, and the
\* call changes nothing.
C25_ValidateIff ==
    /\ [][CallValidate =>
            /\ ret' = IF ValidAsSpecified(sim.data_buffer[1])
                      THEN "True" ELSE "False"
            /\ sim' = sim
            /\ UNCHANGED <<engine_pc, ticks, calls>>
            /\ UNCHANGED sequencer_vars]_vars
    /\ [](ret = "True" => ValidAsSpecified(sim.data_buffer[1]))
    /\ [](ret = "False" => ~ValidAsSpecified(sim.data_buffer[1]))

\* C25 witness: the snapshot of the test with the reading 'warm' was
\* refused
C25_Witness ==
    /\ ret = "False"
    /\ sim.data_buffer[1] =
         TelemetryData(Float(100000), Float(50000), Float(75000),
                       [k \in {"temperature"} |-> Str])

\* C25 witness of the other answer: the valid snapshot of the test
C25_WitnessValid ==
    /\ ret = "True"
    /\ sim.data_buffer[1] =
         TelemetryData(Float(100000), Float(50000), Float(75000),
                       [k \in {"temperature"} |-> Float(20000)])

\* C26: a tick made while target_altitude is absent leaves altitude as it
\* was, and a tick made while target_speed is absent leaves speed as it was.
C26_NoTargetNoMotion ==
    [][CallGenerateData =>
         /\ sim.target_altitude = None => sim'.altitude = sim.altitude
         /\ sim.target_speed = None => sim'.speed = sim.speed]_vars

\* a tick that clears a target is made with the axis value within the reach
\* threshold of that target
ClearedWithinThreshold ==
    [][TickWhileTargetSet =>
         /\ (sim.target_altitude # None /\ sim'.target_altitude = None) =>
               Abs(sim.target_altitude[1] - sim.altitude) < 1000
         /\ (sim.target_speed # None /\ sim'.target_speed = None) =>
               Abs(sim.target_speed[1] - sim.speed) < 100]_vars

\* C27 as stated: with a target set and no setter called afterwards, after
\* finitely many ticks the target is absent, whatever the update_interval;
\* the tick that clears it finds the axis value within the reach threshold.
C27_TargetEventuallyCleared ==
    /\ (ret # "none" /\ sim.target_altitude # None) ~>
          (sim.target_altitude = None)
    /\ (ret # "none" /\ sim.target_speed # None) ~> (sim.target_speed = None)
    /\ ClearedWithinThreshold

\* C27 amended: the same for an update_interval of at most 1.0 s.
C27_TargetEventuallyClearedShortInterval ==
    /\ (ret # "none" /\ sim.update_interval <= 10
          /\ sim.target_altitude # None) ~> (sim.target_altitude = None)
    /\ (ret # "none" /\ sim.update_interval <= 10
          /\ sim.target_speed # None) ~> (sim.target_speed = None)
    /\ ClearedWithinThreshold

\* C27 witness: a climb from 100.0 to 500.0 and a speed-up to 50.0 are both
\* over, ticks were made, and the altitude is within 1.0 of 500.0 or beyond
C27_Witness ==
    /\ ret # "none"
    /\ calls = 2
    /\ sim.target_altitude = None
    /\ sim.target_speed = None
    /\ sim.altitude > 499000
    /\ sim.speed > 49900

\* C28: an emergency stop applied between the two commands of a maneuver
\* interrupts it.  The maneuver still enqueues its second command, and
\* start() still takes it off the queue, but it is not applied: in emergency
\* mode taking a command leaves the engine as it is, and the targets change
\* only by the emergency activation itself or by a tick.
C28_EmergencyInterruptsManeuver ==
    /\ [][\A t \in TaskIds :
            (/\ ManeuverSend(t)
             /\ tasks[t].pc = "send2"
             /\ running
             /\ is_emergency_mode) =>
              (/\ Len(command_queue') = Len(command_queue) + 1
               /\ LastQueued =
                    ManeuverCommand(tasks[t].kind, 2, tasks[t].alt))]_vars
    /\ [][(ConsumeCommand /\ is_emergency_mode) =>
            (/\ sim' = sim
             /\ Len(dequeued') = Len(dequeued) + 1
             /\ unfinished' = unfinished - 1)]_vars
    /\ [][(/\ is_emergency_mode
            /\ \/ sim'.target_altitude # sim.target_altitude
               \/ sim'.target_speed # sim.target_speed) =>
             (ConsumeEmergency \/ EmergencyResume
                \/ EngineTickDuringManeuver)]_vars

\* C28 witness: a takeoff's first command was applied (a tick then set the
\* rate toward 50.0), then an emergency stop, then the takeoff's second
\* command was taken; the targets are the emergency's, not the takeoff's
C28_Witness ==
    /\ is_emergency_mode
    /\ sim.altitude_change_rate = -5000
    /\ dequeued = <<1, 2, 3>>
    /\ command = Some(ManeuverCommand("takeoff", 2, 300000))
    /\ tasks[1].kind = "takeoff"
    /\ sim.target_altitude = Some(0)
    /\ sim.target_speed = Some(0)

\* C29: an emergency activation is ordered.  Taking the emergency stop
\* forces target_speed to 0 and leaves target_altitude as it was, and start()
\* is suspended; while it is suspended start() takes no command and the
\* engine changes only by its own ticks; the suspension ends with
\* target_altitude forced to 0 (or with the cancellation of start()).
C29_ActivationOrdered ==
    /\ [][ConsumeEmergency =>
            (/\ sim'.target_speed = Some(0)
             /\ sim'.target_altitude = sim.target_altitude
             /\ start_pc' = "pause")]_vars
    /\ [][(start_pc = "pause") =>
            (/\ dequeued' = dequeued
             /\ command' = command
             /\ ~ConsumeCommand
             /\ ~ConsumeEmergency
             /\ (sim' # sim) => (EngineTick \/ EmergencyResume))]_vars
    /\ [][(start_pc = "pause" /\ start_pc' # "pause") =>
            (\/ EmergencyResume /\ sim'.target_altitude = Some(0)
             \/ CancelStart)]_vars

\* C29 witness: a command set the targets 200.0 and 20.0 and a tick gathered
\* speed; the emergency stop was taken, and while start() is suspended a tick
\* ran with target_speed 0.0 (it decelerates) and the old target_altitude
C29_Witness ==
    /\ start_pc = "pause"
    /\ is_emergency_mode
    /\ dequeued = <<1, 2>>
    /\ ticks = 2
    /\ sim.acceleration < 0
    /\ sim.target_speed = Some(0)
    /\ sim.target_altitude = Some(200000)
    /\ sim.altitude_change_rate > 0

\* C30: a tick of the driving loop that raises does not end the loop and
\* does not reach the caller of start_simulation: the loop is back at its
\* test, still running, and History is as it was.  The loop is left only
\* when running is false, and while it is true the next tick can be made.
C30_FailedTickContained ==
    /\ [][(LoopIteration /\ GenerateData(sim).raised) =>
            (/\ engine_pc' = "loop"
             /\ sim'.running
             /\ ret' = ret
             /\ sim'.data_buffer = sim.data_buffer)]_vars
    /\ [][(engine_pc = "loop" /\ engine_pc' # "loop") =>
            (~sim.running \/ ~GenerateData(sim).raised)]_vars
    /\ []((engine_pc = "loop" /\ sim.running /\ ticks < MaxTicks) =>
            ENABLED LoopIteration)

\* C30 witness: three ticks of the loop raised one after the other; the loop
\* is still at its test with running true, and History is empty
C30_Witness ==
    /\ engine_pc = "loop"
    /\ sim.running
    /\ ticks = 3
    /\ ret = "none"
    /\ sim.data_buffer = <<>>
    /\ sim.altitude # 100000

\* C31: the driving loop sleeps for update_interval between every two
\* consecutive ticks, also after a tick that raised: every pass of the loop
\* body ends in the sleep, where the event loop runs the other tasks.
C31_SleepBetweenTicks == [][LoopIteration => engine_pc' = "sleep"]_vars

\* C32: a command whose application raises does not end the consume loop
\* and does not set running to false: start() waits for the next command.
\* The commands are still taken in the order they were accepted, and a
\* command taken later outside emergency mode is applied.
C32_FailedCommandContained ==
    /\ [][(/\ ConsumeCommand
            /\ running
            /\ ProcessCommandRaises(is_emergency_mode,
                                    Head(command_queue).cmd)) =>
             (/\ running'
              /\ start_pc' = "get"
              /\ command_queue' = Tail(command_queue))]_vars
    /\ [](\A i \in 1..Len(dequeued) : dequeued[i] = i)
    /\ [][(/\ ConsumeCommand
            /\ ~is_emergency_mode
            /\ Head(command_queue).cmd =
                  ControlCommand(Some(200000), Some(20000), None, FALSE)) =>
             (/\ sim'.target_altitude = Some(200000)
              /\ sim'.target_speed = Some(20000))]_vars

\* C32 witness: the operator's first command raised on its speed after its
\* altitude 50.0 was applied (task_done was skipped: one unit of work is left
\* unfinished); the second command was then taken and applied
C32_Witness ==
    /\ running
    /\ start_pc = "get"
    /\ dequeued = <<1, 2>>
    /\ sent = 2
    /\ unfinished = 1
    /\ \A t \in TaskIds : tasks[t].kind = "none"
    /\ command = Some(ControlCommand(Some(200000), Some(20000), None, FALSE))
    /\ sim.target_altitude = Some(200000)
    /\ sim.target_speed = Some(20000)

\* the n-th command send_command accepted has been taken off the queue
Taken(n) == \E i \in 1..Len(dequeued) : dequeued[i] = n

\* C33: every command send_command accepted is eventually taken off the
\* queue, unless start() returns first (it was stopped or cancelled); the
\* command taken is applied to the engine, or leaves it as it is because of
\* emergency mode, or starts the emergency activation.
C33_AcceptedEventuallyTaken ==
    /\ \A n \in 1..MaxSends :
          (sent >= n) ~> (Taken(n) \/ start_pc = "idle")
    /\ [][ConsumeCommand =>
            LET c == Head(command_queue).cmd
            IN IF is_emergency_mode
               THEN sim' = sim
               ELSE /\ c.target_altitude # None =>
                          sim'.target_altitude = c.target_altitude
                    /\ c.target_speed # None =>
                          sim'.target_speed = c.target_speed
                    /\ c.target_heading # None =>
                          sim'.heading = c.target_heading[1]]_vars
    /\ [][(Len(dequeued') > Len(dequeued)) =>
            (ConsumeCommand \/ ConsumeEmergency)]_vars

\* C33 witness: two commands were accepted, the first started the emergency
\* activation, the second was taken in emergency mode and discarded; the
\* sequencer is still running and waits on an empty queue
C33_Witness ==
    /\ running
    /\ start_pc = "get"
    /\ sent = 2
    /\ Taken(1) /\ Taken(2)
    /\ command_queue = <<>>
    /\ is_emergency_mode
    /\ command = Some(ControlCommand(Some(200000), Some(20000), None, FALSE))
    /\ sim.target_altitude = Some(0)

\* C34: noise never feeds back: whatever is drawn for the reported fields
\* at a tick, the engine's state after the tick is the one a tick without
\* noise gives, so two runs with the same setter calls and ticks have the
\* same states; the reported values do differ.
C34_NoiseDoesNotFeedBack ==
    [][ticks' = ticks + 1 => sim' = GenerateData(sim).state]_vars

\* C34 witness: after ticks toward a target the engine climbs and moves, so
\* that the reported altitude and speed differ from draw to draw, while the
\* state is one
C34_Witness ==
    /\ ticks >= 2
    /\ sim.speed > 0
    /\ sim.target_altitude # None
    /\ \E y, z \in NoiseDraws :
          /\ GenerateDataWithNoise(sim, y).data.altitude #
                GenerateDataWithNoise(sim, z).data.altitude
          /\ GenerateDataWithNoise(sim, y).data.speed #
                GenerateDataWithNoise(sim, z).data.speed

\* C35: during the first pause of a landing started on a running sequencer
\* in normal mode with no targets set before (its slow-down applied, its
\* final approach not yet enqueued), target_altitude is 0.0 and target_speed
\* is at most 10.0.
C35_LandingFirstPauseTargets ==
    \A t \in TaskIds :
      (/\ tasks[t].kind = "landing"
       /\ tasks[t].pc = "send2"
       /\ running
       /\ ~is_emergency_mode
       /\ sent = 1
       /\ dequeued = <<1>>) =>
        (/\ sim.target_altitude = Some(0)
         /\ sim.target_speed # None
         /\ sim.target_speed[1] <= 10000)

\* C36: every command the consume loop takes and applies is followed by
\* exactly one task_done, also when applying it raised; so once every
\* accepted command has been taken while the sequencer runs nothing is
\* unfinished, and a maneuver waiting on join() is released.
C36_TaskDoneForEveryDequeue ==
    /\ [][ConsumeCommand => unfinished' = unfinished - 1]_vars
    /\ []((running /\ start_pc = "get" /\ Len(dequeued) = sent) =>
            unfinished = 0)

\* C37: whenever the latch is set and no activation is in progress,
\* target_altitude was forced to 0.0 after the latch was set: every step that
\* ends the pause of an activation, a stop or a cancellation of start()
\* included, leaves target_altitude 0.0.
C37_DescentNeverLost ==
    [][(start_pc = "pause" /\ start_pc' # "pause") =>
         (is_emergency_mode' /\ sim'.target_altitude = Some(0))]_vars

\* C38: a command with emergency_stop that also carries target fields only
\* activates the emergency, in normal mode and in emergency mode alike:
\* taking it forces target_speed to 0.0 and touches neither target_altitude
\* nor heading, and the end of the activation forces target_altitude to 0.0
\* and touches neither target_speed nor heading; none of the command's own
\* fields is applied.
C38_EmergencyStopIgnoresFields ==
    /\ [][ConsumeEmergency =>
            (/\ sim'.target_speed = Some(0)
             /\ sim'.target_altitude = sim.target_altitude
             /\ sim'.heading = sim.heading)]_vars
    /\ [][EmergencyResume =>
            (/\ sim'.target_altitude = Some(0)
             /\ sim'.target_speed = sim.target_speed
             /\ sim'.heading = sim.heading)]_vars

\* C38 witness: an emergency stop carrying altitude 200, speed 20 and
\* heading 90 was applied to its end as the second command taken, after a
\* tick: the targets are 0.0 and heading is still 0
C38_Witness ==
    /\ is_emergency_mode
    /\ start_pc = "get"
    /\ command = Some(ControlCommand(Some(200000), Some(20000),
                                      Some(90000), TRUE))
    /\ Len(dequeued) = 2
    /\ ticks > 0
    /\ sim.target_altitude = Some(0)
    /\ sim.target_speed = Some(0)
    /\ sim.heading = 0

\* C39, as amended: a maneuver whose first send_command runs while the
\* sequencer is not running enqueues nothing: the send raises, the task
\* ends and leaves the pending-task set, and the queue, its unfinished
\* count and the engine are as they were.
C39_FirstSendWhileStoppedFails ==
    [][\A t \in TaskIds :
         (ManeuverSend(t) /\ tasks[t].pc = "send1" /\ ~running) =>
           (/\ tasks'[t].pc = "failed"
            /\ t \notin pending_tasks'
            /\ command_queue' = command_queue
            /\ unfinished' = unfinished
            /\ sent' = sent
            /\ sim' = sim)]_vars

\* C39: a maneuver started while the sequencer is not running (its task
\* created and not yet run, start() not entered) never enqueues a command: it
\* never gets past its first send_command.
C39_StartedWhileStoppedNeverSends ==
    \A t \in TaskIds :
      []((tasks[t].pc = "send1" /\ ~running /\ start_pc = "idle") =>
           [](tasks[t].pc \notin {"send2", "join", "done"}))

\* C39 witness: a landing asked for before start() failed at its first send
\* and is no longer pending; nothing was ever enqueued
C39_Witness ==
    /\ tasks[1].kind = "landing"
    /\ tasks[1].pc = "failed"
    /\ 1 \notin pending_tasks
    /\ ~running
    /\ sent = 0
    /\ command_queue = <<>>
    /\ sim = NewSimulator(1, 100000, 0, 100000)

\* C40: a tick of the driving loop that raises while building its snapshot
\* is skipped as a whole: altitude, speed, position, battery_level and both
\* targets are after it what they were before it.
C40_FailedTickChangesNothing ==
    [][(LoopIteration /\ GenerateData(sim).raised) =>
         (/\ sim'.altitude = sim.altitude
          /\ sim'.speed = sim.speed
          /\ sim'.latitude = sim.latitude
          /\ sim'.longitude = sim.longitude
          /\ sim'.battery_level = sim.battery_level
          /\ sim'.target_altitude = sim.target_altitude
          /\ sim'.target_speed = sim.target_speed)]_vars

====
